---- MODULE Spec2Model ----
(***************************************************************************)
(* Model of src/src/models/llama.py: the attention-pooling stage, the      *)
(* mean-pooling alternative, the Huber loss and the forward pass of        *)
(* LlamaRegressionModel.                                                   *)
(*                                                                         *)
(* Numbers.  Hidden states, layer weights and attention scores are         *)
(* integers (small integers are exact in both bfloat16 and float16, and so *)
(* are their sums and products).  Softmax weights and pooled values are    *)
(* fractions [num, den].  Predictions, labels and the Huber threshold are  *)
(* integers counting units of 1/Unit.  A loss is a fraction over the       *)
(* common denominator 2 * n * Unit * Unit, n the number of elements.       *)
(***************************************************************************)
EXTENDS Integers, Sequences, FiniteSets, TLC

VARIABLES cfg, params, training, pc, call, mp, hb

vars == <<cfg, params, training, pc, call, mp, hb>>

---------------------------------------------------------------------------
(* Sizes of the tensors the model enumerates.                              *)
Batch == 2
SeqLen == 2
MaxTok == 2

(* hidden_size = self.backbone.config.hidden_size                          *)
HiddenSize == 1

Rows == 1..Batch
Cols == 1..SeqLen
Dims == 1..HiddenSize

(* One unit of a prediction, a label or a threshold is 1/Unit.             *)
Unit == 2^12

---------------------------------------------------------------------------
(* Arithmetic helpers.                                                     *)

Abs(x) == IF x < 0 THEN -x ELSE x

RECURSIVE Sum(_, _)
(* f[1] + ... + f[n] *)
Sum(f, n) == IF n = 0 THEN 0 ELSE f[n] + Sum(f, n - 1)

RECURSIVE MaxOf(_, _)
(* the largest of f[1..n], n >= 1 *)
MaxOf(f, n) ==
    IF n = 1 THEN f[1]
    ELSE LET m == MaxOf(f, n - 1) IN IF f[n] > m THEN f[n] ELSE m

(* n/d rounded to the nearest integer, ties to even (d > 0).               *)
RoundDiv(n, d) ==
    LET q == n \div d
        r == n % d
    IN  IF 2 * r > d \/ (2 * r = d /\ q % 2 = 1) THEN q + 1 ELSE q

Rat(n, d) == [num |-> n, den |-> d]

(* exp(-d) for an integer d >= 0, in millionths, rounded to nearest; it    *)
(* is below half a millionth from d = 15 on.                               *)
ExpTable ==
    << 1000000, 367879, 135335, 49787, 18316, 6738, 2479, 912,
       335, 123, 45, 17, 6, 2, 1 >>

ExpNeg(d) == IF d >= Len(ExpTable) THEN 0 ELSE ExpTable[d + 1]

---------------------------------------------------------------------------
(* load_model: cap_flag selects the dtype of the backbone, of attn_fc and  *)
(* of the regressor.                                                       *)
TorchDtype(cap_flag) == IF cap_flag THEN "bfloat16" ELSE "float16"

(* Significant bits of the dtype: values in [1/2, 1) are 2^-bits apart.    *)
PrecisionBits(dtype) == IF dtype = "bfloat16" THEN 8 ELSE 11

(* The largest finite float16; bfloat16 reaches about 3.4e38.              *)
HalfMax == 65504

(* The fill value of masked_fill (line 33).                                *)
Sentinel == -1000000000

(* nn.Dropout(0.1): a kept activation is scaled by 1/(1 - 0.1) = 10/9.     *)
DropNum == 10
DropDen == 9

---------------------------------------------------------------------------
(* Layers.                                                                 *)

(* nn.Linear with one output: w . x + b over n inputs.                     *)
Linear(w, b, x, n) == Sum([i \in 1..n |-> w[i] * x[i]], n) + b

ReLU(x) == IF x > 0 THEN x ELSE 0

(* Mutant: dropout that stays active in inference mode.                    *)
DropoutActive_always(mode) == TRUE

(* nn.Dropout(0.1): the identity in inference mode; in training mode an    *)
(* element is zeroed (keep = FALSE) or scaled by 10/9, the result rounded  *)
(* to the integer grid of the activations.                                 *)
DropoutActive(mode) == mode

Dropout(x, keep, mode) ==
    IF ~DropoutActive(mode) THEN x
    ELSE IF keep THEN RoundDiv(x * DropNum, DropDen)
    ELSE 0

(* masked_fill converts its Python scalar to the tensor's dtype first and  *)
(* raises RuntimeError ("value cannot be converted to type at::Half        *)
(* without overflow") when the scalar is outside the dtype's finite range. *)
FillValueFits(dtype) ==
    dtype = "bfloat16" \/ (Sentinel >= -HalfMax /\ Sentinel <= HalfMax)

(* Mutant: the fill applied where the mask is 1.                           *)
MaskedFill_inverted(scores, maskrow) ==
    [s \in Cols |-> IF maskrow[s] = 1 THEN Sentinel ELSE scores[s]]

(* attn_scores.masked_fill(attention_mask == 0, -1e9), one batch element.  *)
MaskedFill(scores, maskrow) ==
    [s \in Cols |-> IF maskrow[s] = 0 THEN Sentinel ELSE scores[s]]

(* F.softmax(attn_scores, dim=1), one batch element: exp(x - max) over the *)
(* sum of these, as fractions with a common denominator.                   *)
Softmax(scores) ==
    LET m == MaxOf(scores, SeqLen)
        e == [s \in Cols |-> ExpNeg(m - scores[s])]
        z == Sum(e, SeqLen)
    IN  [s \in Cols |-> Rat(e[s], z)]

(* The scores of one batch element before masking: attn_fc, ReLU, dropout. *)
AttnScores(p, hrow, keeprow, mode) ==
    [s \in Cols |->
        Dropout(ReLU(Linear(p.attn_w, p.attn_b, hrow[s], HiddenSize)),
                keeprow[s], mode)]

(* (last_hidden_state * attn_weights).sum(dim=1), one batch element.       *)
WeightedSum(hrow, w) ==
    [i \in Dims |->
        Rat(Sum([s \in Cols |-> hrow[s][i] * w[s].num], SeqLen), w[1].den)]

(* AttentionPooling.forward.  raised = TRUE when masked_fill raises, and   *)
(* then nothing after it is computed.                                      *)
AttentionPooling_forward(p, dtype, mode, last_hidden_state, attention_mask, keep) ==
    LET pre == [b \in Rows |->
                   AttnScores(p, last_hidden_state[b], keep[b], mode)]
    IN  IF ~FillValueFits(dtype)
        THEN [raised |-> TRUE, attn_scores |-> <<>>, attn_weights |-> <<>>,
              attn_embeddings |-> <<>>]
        ELSE LET sc == [b \in Rows |-> MaskedFill(pre[b], attention_mask[b])]
                 w  == [b \in Rows |-> Softmax(sc[b])]
             IN  [raised |-> FALSE, attn_scores |-> sc, attn_weights |-> w,
                  attn_embeddings |->
                      [b \in Rows |-> WeightedSum(last_hidden_state[b], w[b])]]

---------------------------------------------------------------------------
(* mean_pooling.                                                           *)

(* 1 / 1e-9: sum_mask.clamp(min=1e-9) (line 56).                           *)
ClampInv == 1000000000

(* expanded_attention_mask: the mask value of every hidden component.      *)
ExpandMask(maskrow) == [s \in Cols |-> [i \in Dims |-> maskrow[s]]]

(* Mutant: the hidden states summed without zeroing the masked positions.  *)
MeanRow_unmasked_sum(hrow, maskrow) ==
    [i \in Dims |->
        LET sum_embeddings == Sum([s \in Cols |-> hrow[s][i]], SeqLen)
            sum_mask == Sum([s \in Cols |-> maskrow[s]], SeqLen)
        IN  IF sum_mask >= 1 THEN Rat(sum_embeddings, sum_mask)
            ELSE Rat(sum_embeddings * ClampInv, 1)]

(* mean_pooling, one batch element: the masked sum over the clamped mask   *)
(* sum.  A mask sum of 0 is clamped to 1e-9, and dividing by 1e-9 is       *)
(* multiplying by ClampInv.                                                *)
MeanRow(hrow, maskrow) ==
    LET em == ExpandMask(maskrow)
    IN  [i \in Dims |->
            LET sum_embeddings == Sum([s \in Cols |-> hrow[s][i] * em[s][i]], SeqLen)
                sum_mask == Sum([s \in Cols |-> em[s][i]], SeqLen)
            IN  IF sum_mask >= 1 THEN Rat(sum_embeddings, sum_mask)
                ELSE Rat(sum_embeddings * ClampInv, 1)]

mean_pooling(last_hidden_state, attention_mask) ==
    [b \in DOMAIN last_hidden_state |->
        MeanRow(last_hidden_state[b], attention_mask[b])]

---------------------------------------------------------------------------
(* Losses.  Each returns [error, warned, loss]; loss is a fraction whose   *)
(* denominator is 2 * n * Unit * Unit for n compared elements.             *)

NoLoss == Rat(0, 0)

LossResult(err, warn, l) == [error |-> err, warned |-> warn, loss |-> l]

LossDen(n) == 2 * n * Unit * Unit

(* The two candidate values of one element, doubled so that they stay      *)
(* integers, in units of 1/Unit^2: 0.5 * abs_error^2 and                   *)
(* delta * (abs_error - 0.5 * delta).                                      *)
small_error_loss(abs_error) == abs_error * abs_error

(* Mutant: delta * (abs_error - delta), the factor 0.5 lost.               *)
large_error_loss_nohalf(abs_error, delta) == delta * (2 * abs_error - 2 * delta)

large_error_loss(abs_error, delta) == delta * (2 * abs_error - delta)

(* torch.where(is_small_error, small_error_loss, large_error_loss)         *)
HuberElem2(pred, label, delta) ==
    LET abs_error == Abs(pred - label)
        is_small_error == abs_error <= delta
    IN  IF is_small_error THEN small_error_loss(abs_error)
        ELSE large_error_loss(abs_error, delta)

(* Mutant: no assertion; labels of one element are broadcast.              *)
compute_huber_loss_noassert(preds, labels, delta) ==
    IF ~labels.given THEN LossResult("AttributeError", FALSE, NoLoss)
    ELSE LET n == Len(preds)
         IN  LossResult("none", FALSE,
                 Rat(Sum([b \in 1..n |->
                             HuberElem2(preds[b],
                                        IF Len(labels.vals) = 1 THEN labels.vals[1]
                                        ELSE labels.vals[b], delta)], n),
                     2 * n * Unit * Unit))

(* compute_huber_loss: the assertion on the shapes, then the mean.         *)
compute_huber_loss(preds, labels, delta) ==
    IF ~labels.given THEN LossResult("AttributeError", FALSE, NoLoss)
    ELSE IF Len(preds) # Len(labels.vals)
    THEN LossResult("AssertionError", FALSE, NoLoss)
    ELSE LET n == Len(preds)
         IN  LossResult("none", FALSE,
                 Rat(Sum([b \in 1..n |-> HuberElem2(preds[b], labels.vals[b], delta)], n),
                     LossDen(n)))

(* torch broadcasting of two one-dimensional shapes.                       *)
Broadcastable(n, m) == n = m \/ n = 1 \/ m = 1

BroadcastLen(n, m) == IF n >= m THEN n ELSE m

BroadcastAt(v, b) == IF Len(v) = 1 THEN v[1] ELSE v[b]

(* F.mse_loss and F.l1_loss compare target.size() with input.size(): a    *)
(* target of None has no size() (AttributeError); a target of another size *)
(* is warned about and broadcast, and sizes that do not broadcast raise    *)
(* RuntimeError.                                                           *)
TargetError(preds, labels) ==
    IF ~labels.given THEN "AttributeError"
    ELSE IF ~Broadcastable(Len(preds), Len(labels.vals)) THEN "RuntimeError"
    ELSE "none"

SizeWarning(preds, labels) == labels.given /\ Len(preds) # Len(labels.vals)

(* nn.MSELoss(): the mean of the squared differences.                      *)
MSELoss(preds, labels) ==
    IF TargetError(preds, labels) # "none"
    THEN LossResult(TargetError(preds, labels), SizeWarning(preds, labels), NoLoss)
    ELSE LET n == BroadcastLen(Len(preds), Len(labels.vals))
             d == [b \in 1..n |-> BroadcastAt(preds, b) - BroadcastAt(labels.vals, b)]
         IN  LossResult("none", SizeWarning(preds, labels),
                 Rat(Sum([b \in 1..n |-> 2 * d[b] * d[b]], n), LossDen(n)))

(* nn.L1Loss(): the mean of the absolute differences.                      *)
L1Loss(preds, labels) ==
    IF TargetError(preds, labels) # "none"
    THEN LossResult(TargetError(preds, labels), SizeWarning(preds, labels), NoLoss)
    ELSE LET n == BroadcastLen(Len(preds), Len(labels.vals))
             d == [b \in 1..n |-> BroadcastAt(preds, b) - BroadcastAt(labels.vals, b)]
         IN  LossResult("none", SizeWarning(preds, labels),
                 Rat(Sum([b \in 1..n |-> 2 * Unit * Abs(d[b])], n), LossDen(n)))

---------------------------------------------------------------------------
(* The regression head.                                                    *)

(* a fraction rounded to the integer grid of the activations               *)
RoundRat(r) == RoundDiv(r.num, r.den)

RECURSIVE Binade(_, _)
(* the k >= 1 with 2^-k <= e / (1000000 + e) < 2^-(k-1), for 0 < e         *)
Binade(e, k) == IF e * (2^k) >= 1000000 + e THEN k ELSE Binade(e, k + 1)

(* Mutant: the head without its last activation.                           *)
Sigmoid_missing(z, dtype) == Unit * z

(* nn.Sigmoid() in the given dtype, for an integer pre-activation z: the   *)
(* value 1 / (1 + exp(-z)) rounded to the nearest number of the dtype, in  *)
(* units of 1/Unit.  At and above 1/2 the dtype's numbers are 2^-bits      *)
(* apart; in [2^-k, 2^-(k-1)) they are 2^-(bits+k-1) apart.  Spacings      *)
(* finer than one unit (values below 2^(bits-13)) are rounded to one unit. *)
Sigmoid(z, dtype) ==
    LET bits == PrecisionBits(dtype)
        e == ExpNeg(Abs(z))
    IN  IF z >= 0
        THEN Unit - (Unit \div (2^bits)) * RoundDiv((2^bits) * e, 1000000 + e)
        ELSE IF e = 0 THEN 0
        ELSE LET k == Binade(e, 1)
                 steps == IF bits + k - 1 <= 12 THEN 2^(bits + k - 1) ELSE Unit
             IN  (Unit \div steps) * RoundDiv(steps * e, 1000000 + e)

(* self.regressor on one batch element: Linear(2h -> h), ReLU, Dropout,    *)
(* Linear(h -> 1), Sigmoid.  The pooled half of the input is rounded to    *)
(* the integer grid of the activations.                                    *)
Regressor(p, dtype, mode, total_row, keeprow) ==
    LET x == [i \in 1..(2 * HiddenSize) |-> RoundRat(total_row[i])]
        hid == [j \in Dims |->
                   Dropout(ReLU(Linear(p.reg_w1[j], p.reg_b1[j], x, 2 * HiddenSize)),
                           keeprow[j], mode)]
    IN  Sigmoid(Linear(p.reg_w2, p.reg_b2, hid, HiddenSize), dtype)

---------------------------------------------------------------------------
(* LlamaRegressionModel.forward.                                           *)

(* self.backbone(input_ids, attention_mask).last_hidden_state: the         *)
(* backbone is an external pretrained model; here every token has a fixed  *)
(* hidden vector p.emb[token].                                             *)
Backbone(p, input_ids, attention_mask) ==
    [b \in Rows |-> [s \in Cols |-> p.emb[input_ids[b][s]]]]

(* Mutant: the first position taken instead of the last.                   *)
LastToken_first(last_hidden_state) ==
    [b \in Rows |-> last_hidden_state[b][1]]

(* outputs.last_hidden_state[:, -1, :]                                     *)
LastToken(last_hidden_state) ==
    [b \in Rows |-> last_hidden_state[b][SeqLen]]

(* torch.cat([pooled, acum_token], dim=1), one batch element               *)
Concat(pooled_row, acum_row) ==
    [i \in 1..(2 * HiddenSize) |->
        IF i <= HiddenSize THEN pooled_row[i] ELSE Rat(acum_row[i - HiddenSize], 1)]

(* Mutant: the loss category compared without regard to case.              *)
SelectLoss_caseless(c, preds, labels) ==
    IF c.loss_cat \in {"mse", "MSE"} THEN MSELoss(preds, labels)
    ELSE IF c.loss_cat \in {"mae", "MAE"} THEN L1Loss(preds, labels)
    ELSE compute_huber_loss(preds, labels, c.delta)

(* the if / elif / else over self.loss_cat                                 *)
SelectLoss(c, preds, labels) ==
    IF c.loss_cat = "mse" THEN MSELoss(preds, labels)
    ELSE IF c.loss_cat = "mae" THEN L1Loss(preds, labels)
    ELSE compute_huber_loss(preds, labels, c.delta)

(* What a call leaves behind: its arguments, the mode it ran in, every     *)
(* intermediate tensor it computed (<<>> when it was not reached), the     *)
(* exception that ended it ("none" when it returned) and the keys and      *)
(* values of the returned dict.                                            *)
CallRecord(ids, mask, labels, mode, exc, at, h, pool, acum, total, preds, lr, keys) ==
    [input_ids |-> ids, attention_mask |-> mask, labels |-> labels, mode |-> mode,
     exception |-> exc, raised_at |-> at,
     last_hidden_state |-> h,
     attn_scores |-> pool.attn_scores, attn_weights |-> pool.attn_weights,
     pooled |-> pool.attn_embeddings,
     acum_token |-> acum, total_pooled |-> total, preds |-> preds,
     warned |-> lr.warned, ret_keys |-> keys,
     ret_loss |-> lr.loss, ret_logits |-> IF keys = {} THEN <<>> ELSE preds]

forward(c, p, mode, input_ids, attention_mask, labels, keepA, keepR) ==
    LET dtype == TorchDtype(c.cap_flag)
        h     == Backbone(p, input_ids, attention_mask)
        pool  == AttentionPooling_forward(p, dtype, mode, h, attention_mask, keepA)
    IN  IF pool.raised
        THEN CallRecord(input_ids, attention_mask, labels, mode,
                        "RuntimeError", "masked_fill", h, pool, <<>>, <<>>, <<>>,
                        LossResult("none", FALSE, NoLoss), {})
        ELSE LET acum_token   == LastToken(h)
                 total_pooled == [b \in Rows |->
                                     Concat(pool.attn_embeddings[b], acum_token[b])]
                 preds == [b \in Rows |->
                              Regressor(p, dtype, mode, total_pooled[b], keepR[b])]
                 lr    == SelectLoss(c, preds, labels)
             IN  IF lr.error # "none"
                 THEN CallRecord(input_ids, attention_mask, labels, mode,
                                 lr.error, "loss", h, pool, acum_token, total_pooled,
                                 preds, lr, {})
                 ELSE CallRecord(input_ids, attention_mask, labels, mode,
                                 "none", "none", h, pool, acum_token, total_pooled,
                                 preds, lr, {"loss", "logits"})


---------------------------------------------------------------------------
(* The values the model enumerates.                                        *)

Toks == 1..MaxTok

(* Hidden values of the backbone: token t has component i equal to         *)
(* ev[(t + i - 2) mod Len(ev) + 1].                                        *)
Embedding(ev) ==
    [t \in Toks |-> [i \in Dims |-> ev[((t + i - 2) % Len(ev)) + 1]]]

(* A parameter set: attn_fc has weight aw on every component and bias ab;  *)
(* the regressor's first layer has weight pw on pooled component j and qw  *)
(* on last-token component j for its unit j, and bias 0; its second layer  *)
(* has weight gw on every unit and bias cb.                                *)
MkParams(ev, aw, ab, pw, qw, gw, cb) ==
    [emb    |-> Embedding(ev),
     attn_w |-> [i \in Dims |-> aw],
     attn_b |-> ab,
     reg_w1 |-> [j \in Dims |->
                    [i \in 1..(2 * HiddenSize) |->
                        IF i = j THEN pw
                        ELSE IF i = HiddenSize + j THEN qw ELSE 0]],
     reg_b1 |-> [j \in Dims |-> 0],
     reg_w2 |-> [j \in Dims |-> gw],
     reg_b2 |-> cb]

ParamChoices ==
    { MkParams(<<-1, 3, 0>>, 1, 0, 1, 1, 2, -3),
      MkParams(<<2, -1, 1>>, -1, 2, 1, -1, 1, 0) }

(* (cap_flag, loss_cat, delta) as passed to load_model.                    *)
MkCfg(cap, cat, delta) == [cap_flag |-> cap, loss_cat |-> cat, delta |-> delta]

CfgChoices ==
    { MkCfg(TRUE, "mse", Unit \div 4),
      MkCfg(TRUE, "mae", Unit \div 4),
      MkCfg(TRUE, "huber", Unit \div 4),
      MkCfg(TRUE, "huber", Unit \div 16),
      MkCfg(TRUE, "MSE", Unit \div 16),
      MkCfg(FALSE, "mse", Unit \div 4),
      MkCfg(FALSE, "huber", Unit \div 4) }

(* Batches of token ids: row b is the base sequence rotated by b - 1.      *)
IdChoices ==
    { [b \in Rows |-> [s \in Cols |-> base[((s + b - 2) % SeqLen) + 1]]] :
        base \in [Cols -> Toks] }

MaskChoices == [Rows -> [Cols -> {0, 1}]]

NoLabels == [given |-> FALSE, vals |-> <<>>]

Labels(v) == [given |-> TRUE, vals |-> v]

(* labels=None, labels of the shape of preds, of one element, and of one   *)
(* element more than preds                                                 *)
LabelChoices ==
    { NoLabels,
      Labels([b \in Rows |-> (b * Unit) \div (Batch + 1)]),
      Labels([b \in Rows |-> Unit]),
      Labels(<<Unit \div 2>>),
      Labels([b \in 1..(Batch + 1) |-> Unit \div 2]) }

(* Dropout draws: which score positions and which regressor units would   *)
(* be kept, the same pattern in every row.                                 *)
KeepChoices(idx) == { [b \in Rows |-> k] : k \in [idx -> BOOLEAN] }

NoCall ==
    CallRecord(<<>>, <<>>, NoLabels, FALSE, "none", "none", <<>>,
               [attn_scores |-> <<>>, attn_weights |-> <<>>, attn_embeddings |-> <<>>],
               <<>>, <<>>, <<>>, LossResult("none", FALSE, NoLoss), {})

NoMp == [hidden |-> <<>>, mask |-> <<>>, out |-> <<>>, done |-> FALSE]

NoHb == [preds |-> <<>>, labels |-> NoLabels, delta |-> 0, out |-> LossResult("none", FALSE, NoLoss), done |-> FALSE]

---------------------------------------------------------------------------
(* The model object and its forward calls.                                 *)

(* After load_model: nn.Module starts in training mode.                    *)
Init ==
    /\ cfg \in CfgChoices
    /\ params \in ParamChoices
    /\ training = TRUE
    /\ pc = "idle"
    /\ call = NoCall
    /\ mp = NoMp
    /\ hb = NoHb

(* model.train() / model.eval(), inherited from nn.Module                  *)
Train ==
    /\ ~training
    /\ training' = TRUE
    /\ UNCHANGED <<cfg, params, pc, call, mp, hb>>

Eval ==
    /\ training
    /\ training' = FALSE
    /\ UNCHANGED <<cfg, params, pc, call, mp, hb>>

(* A first call of forward.                                                *)
Forward ==
    /\ pc = "idle"
    /\ \E ids \in IdChoices, mask \in MaskChoices, labels \in LabelChoices :
       \E keepA \in KeepChoices(Cols), keepR \in KeepChoices(Dims) :
           call' = forward(cfg, params, training, ids, mask, labels, keepA, keepR)
    /\ pc' = "returned"
    /\ UNCHANGED <<cfg, params, training, mp, hb>>

(* The same call once more: identical token ids, mask and labels.          *)
ForwardAgain ==
    /\ pc = "returned"
    /\ \E keepA \in KeepChoices(Cols), keepR \in KeepChoices(Dims) :
           call' = forward(cfg, params, training, call.input_ids,
                           call.attention_mask, call.labels, keepA, keepR)
    /\ pc' = "repeated"
    /\ UNCHANGED <<cfg, params, training, mp, hb>>

Next == Forward \/ ForwardAgain \/ Train \/ Eval

Spec == Init /\ [][Next]_vars


---------------------------------------------------------------------------
(* mean_pooling applied to bounded inputs.                                 *)

HiddenVals == {-1, 0, 2}

SomeCfg == MkCfg(TRUE, "huber", Unit \div 4)

SomeParams == MkParams(<<-1, 3, 0>>, 1, 0, 1, 1, 2, -3)

InitMean ==
    /\ cfg = SomeCfg
    /\ params = SomeParams
    /\ training = TRUE
    /\ pc = "idle"
    /\ call = NoCall
    /\ hb = NoHb
    /\ \E h \in [Rows -> [Cols -> [Dims -> HiddenVals]]], m \in MaskChoices :
           mp = [hidden |-> h, mask |-> m, out |-> <<>>, done |-> FALSE]

MeanPooling ==
    /\ ~mp.done
    /\ mp' = [mp EXCEPT !.out = mean_pooling(mp.hidden, mp.mask), !.done = TRUE]
    /\ UNCHANGED <<cfg, params, training, pc, call, hb>>

NextMean == MeanPooling

SpecMean == InitMean /\ [][NextMean]_vars

---------------------------------------------------------------------------
(* compute_huber_loss applied to bounded inputs.                           *)

LossVals == {0, Unit \div 4, Unit \div 2, Unit, 2 * Unit}

DeltaVals == {Unit \div 4, Unit \div 2, Unit}

InitHuber ==
    /\ cfg = SomeCfg
    /\ params = SomeParams
    /\ training = TRUE
    /\ pc = "idle"
    /\ call = NoCall
    /\ mp = NoMp
    /\ \E n \in {Batch - 1, Batch} :
       \E p \in [Rows -> LossVals], l \in [1..n -> LossVals], d \in DeltaVals :
           hb = [preds |-> p, labels |-> Labels(l), delta |-> d,
                 out |-> LossResult("none", FALSE, NoLoss), done |-> FALSE]

HuberLoss ==
    /\ ~hb.done
    /\ hb' = [hb EXCEPT !.out = compute_huber_loss(hb.preds, hb.labels, hb.delta),
                        !.done = TRUE]
    /\ UNCHANGED <<cfg, params, training, pc, call, mp>>

NextHuber == HuberLoss

SpecHuber == InitHuber /\ [][NextHuber]_vars


---------------------------------------------------------------------------
(* Properties of compute_huber_loss (SpecHuber) and mean_pooling           *)
(* (SpecMean).                                                             *)

HbErr(b) == Abs(hb.preds[b] - hb.labels.vals[b])

(* C3: for equally shaped preds and labels compute_huber_loss returns the  *)
(* batch mean of 0.5*e^2 where |e| <= delta and of delta*(|e| - 0.5*delta) *)
(* where |e| > delta; at |e| = delta the two branch values are equal (and  *)
(* are 0.5 for delta = 1, e = 1).  Element values are doubled, the         *)
(* denominator is 2 * n * Unit^2.                                          *)
C3_HuberMean ==
    (hb.done /\ Len(hb.preds) = Len(hb.labels.vals)) =>
        LET n == Len(hb.preds)
            d == hb.delta
        IN  /\ hb.out.error = "none"
            /\ hb.out.loss.den = 2 * n * Unit * Unit
            /\ hb.out.loss.num =
                   Sum([b \in 1..n |->
                           IF HbErr(b) <= d THEN HbErr(b) * HbErr(b)
                           ELSE 2 * d * HbErr(b) - d * d], n)
            /\ \A b \in 1..n :
                   HbErr(b) = d =>
                       /\ small_error_loss(HbErr(b)) = large_error_loss(HbErr(b), d)
                       /\ HuberElem2(hb.preds[b], hb.labels.vals[b], d) = d * d
                       /\ d = Unit => small_error_loss(HbErr(b)) = Unit * Unit

(* A Huber call with one element at the threshold and one beyond it.       *)
C3_Witness ==
    /\ hb.done
    /\ hb.out.error = "none"
    /\ \E b1, b2 \in 1..Len(hb.preds) :
           HbErr(b1) = hb.delta /\ HbErr(b2) > hb.delta

MpUnmasked(b) == {s \in Cols : mp.mask[b][s] = 1}

MpCount(b, v) == Cardinality({s \in MpUnmasked(b) : mp.hidden[b][s] = v})

(* rows b1 and b2 hold the same unmasked hidden vectors, each as often     *)
MpSameUnmasked(b1, b2) ==
    \A v \in [Dims -> HiddenVals] : MpCount(b1, v) = MpCount(b2, v)

---------------------------------------------------------------------------
(* Properties of forward (Spec).                                           *)

(* a call of forward has ended, by returning or by raising                 *)
Called == pc \in {"returned", "repeated"}

(* ... and it got past the attention pooling                               *)
PoolingDone == Called /\ call.raised_at # "masked_fill"

(* ... and it returned                                                     *)
Returned == Called /\ call.exception = "none"

HuberSelected == cfg.loss_cat \notin {"mse", "mae"}

CallErr(b) == Abs(call.preds[b] - call.labels.vals[b])

(* C1: a forward call without labels completes without raising and        *)
(* returns the logits and no loss; with labels it returns both.            *)
C1_LossOnlyWithLabels ==
    PoolingDone =>
        IF call.labels.given
        THEN call.exception = "none" => call.ret_keys = {"loss", "logits"}
        ELSE call.exception = "none" /\ call.ret_keys = {"logits"}

(* C2: for labels of the shape of preds the call returns whatever the loss *)
(* category is, and its loss is the mean of the squared differences for    *)
(* exactly "mse", the mean of the absolute differences for exactly "mae",  *)
(* and the Huber loss with the configured delta for every other category.  *)
C2_LossSelection ==
    (PoolingDone /\ call.labels.given /\ Len(call.labels.vals) = Batch) =>
        /\ call.exception = "none"
        /\ call.ret_loss.den = 2 * Batch * Unit * Unit
        /\ call.ret_loss.num =
               Sum([b \in Rows |->
                       IF cfg.loss_cat = "mse" THEN 2 * CallErr(b) * CallErr(b)
                       ELSE IF cfg.loss_cat = "mae" THEN 2 * Unit * CallErr(b)
                       ELSE IF CallErr(b) <= cfg.delta THEN CallErr(b) * CallErr(b)
                       ELSE cfg.delta * (2 * CallErr(b) - cfg.delta)], Batch)

(* A call configured with the near-miss "MSE" returned a loss that is not  *)
(* the mean squared error of its predictions.                              *)
C2_Witness ==
    /\ Returned
    /\ cfg.loss_cat = "MSE"
    /\ Len(call.labels.vals) = Batch
    /\ call.ret_loss.num # Sum([b \in Rows |-> 2 * CallErr(b) * CallErr(b)], Batch)

HasUnmasked(b) == \E s \in Cols : call.attention_mask[b][s] = 1

(* C5: where AttentionPooling.forward has computed its weights, every      *)
(* batch element with an unmasked position has weights >= 0 that sum to 1; *)
(* every masked position carries the sentinel score and the weight 0, and  *)
(* the pooled vector is the weighted sum of the unmasked hidden vectors.   *)
C5_AttentionWeights ==
    PoolingDone =>
        \A b \in Rows :
            HasUnmasked(b) =>
                LET w == call.attn_weights[b]
                    m == call.attention_mask[b]
                IN  /\ \A s \in Cols : w[s].num >= 0 /\ w[s].den > 0
                    /\ \A s \in Cols : w[s].den = w[1].den
                    /\ Sum([s \in Cols |-> w[s].num], SeqLen) = w[1].den
                    /\ \A s \in Cols :
                           m[s] = 0 => call.attn_scores[b][s] = Sentinel /\ w[s].num = 0
                    /\ \A s \in Cols : m[s] = 1 => call.attn_scores[b][s] >= 0
                    /\ \A i \in Dims :
                           call.pooled[b][i] =
                               Rat(Sum([s \in Cols |->
                                           IF m[s] = 1
                                           THEN call.last_hidden_state[b][s][i] * w[s].num
                                           ELSE 0], SeqLen),
                                   w[1].den)

(* A pooled batch element with a masked and an unmasked position whose     *)
(* hidden vectors differ.                                                  *)
C5_Witness ==
    /\ PoolingDone
    /\ \E b \in Rows, s1, s2 \in Cols :
           /\ call.attention_mask[b][s1] = 1
           /\ call.attention_mask[b][s2] = 0
           /\ call.last_hidden_state[b][s1] # call.last_hidden_state[b][s2]

(* C7 as stated: every returned prediction is strictly between 0 and 1.    *)
C7_OpenInterval ==
    Returned => \A b \in Rows : 0 < call.ret_logits[b] /\ call.ret_logits[b] < Unit

(* C7 amended: every returned prediction lies in the closed interval       *)
(* [0, 1].                                                                 *)
C7_ClosedInterval ==
    PoolingDone =>
        /\ DOMAIN call.preds = Rows
        /\ \A b \in Rows : 0 <= call.preds[b] /\ call.preds[b] <= Unit
        /\ Returned => call.ret_logits = call.preds

(* A returned call with one prediction equal to 1 and one strictly inside. *)
C7_Witness ==
    /\ Returned
    /\ \E b1, b2 \in Rows :
           /\ call.ret_logits[b1] = Unit
           /\ 0 < call.ret_logits[b2] /\ call.ret_logits[b2] < Unit

(* C8: a forward call changes neither the parameters, the configuration    *)
(* nor the mode; and a call repeated with identical token ids, mask and    *)
(* labels, both calls in inference mode, ends the same way with the same   *)
(* logits and loss.                                                        *)
C8_Deterministic ==
    [][ /\ (call' # call \/ pc' # pc) =>
               (params' = params /\ cfg' = cfg /\ training' = training)
        /\ ( /\ pc = "returned" /\ pc' = "repeated"
             /\ call'.input_ids = call.input_ids
             /\ call'.attention_mask = call.attention_mask
             /\ call'.labels = call.labels
             /\ ~call.mode /\ ~call'.mode )
           => ( /\ call'.exception = call.exception
                /\ call'.ret_keys = call.ret_keys
                /\ call'.ret_logits = call.ret_logits
                /\ call'.ret_loss = call.ret_loss
                /\ call'.preds = call.preds ) ]_vars

(* A call was repeated in inference mode and returned.                     *)
C8_Witness ==
    /\ pc = "repeated"
    /\ ~call.mode
    /\ call.exception = "none"

AllMasked(b) == \A s \in Cols : call.attention_mask[b][s] = 0

(* C9: for a batch element whose mask is all zero AttentionPooling.forward *)
(* raises nothing, gives every position the weight 1/SeqLen and pools the  *)
(* plain mean of all hidden vectors of the sequence.                       *)
C9_AllMaskedUniform ==
    (Called /\ \E b \in Rows : AllMasked(b)) =>
        /\ call.raised_at # "masked_fill"
        /\ \A b \in Rows :
               AllMasked(b) =>
                   /\ \A s \in Cols :
                          /\ call.attn_scores[b][s] = Sentinel
                          /\ call.attn_weights[b][s].num * SeqLen =
                                 call.attn_weights[b][s].den
                   /\ \A i \in Dims :
                          call.pooled[b][i].num * SeqLen =
                              call.pooled[b][i].den *
                                  Sum([s \in Cols |-> call.last_hidden_state[b][s][i]],
                                      SeqLen)

(* The same for the calls that got past masked_fill (bfloat16).            *)
C9_UniformWherePooled ==
    PoolingDone =>
        \A b \in Rows :
            AllMasked(b) =>
                /\ \A s \in Cols :
                       call.attn_weights[b][s].num * SeqLen = call.attn_weights[b][s].den
                /\ \A i \in Dims :
                       call.pooled[b][i].num * SeqLen =
                           call.pooled[b][i].den *
                               Sum([s \in Cols |-> call.last_hidden_state[b][s][i]], SeqLen)

(* tokenizer.padding_side = "right": a sequence of len tokens in a batch   *)
(* of length SeqLen has the mask 1^len 0^(SeqLen - len).                   *)
RightPadMask(len) == [s \in Cols |-> IF s <= len THEN 1 ELSE 0]

(* C10: the last-token half of the regressor's input is the hidden vector  *)
(* at the last position of the sequence, whatever the mask, and the other  *)
(* half is the pooled vector; so for a right-padded sequence shorter than  *)
(* the batch length it is taken at a masked position.                      *)
C10_LastToken ==
    PoolingDone =>
        \A b \in Rows :
            /\ call.acum_token[b] = call.last_hidden_state[b][SeqLen]
            /\ \A i \in Dims :
                   /\ call.total_pooled[b][i] = call.pooled[b][i]
                   /\ call.total_pooled[b][HiddenSize + i] =
                          Rat(call.last_hidden_state[b][SeqLen][i], 1)
            /\ \A len \in 0..(SeqLen - 1) :
                   call.attention_mask[b] = RightPadMask(len) =>
                       /\ call.attention_mask[b][SeqLen] = 0
                       /\ call.acum_token[b] = call.last_hidden_state[b][SeqLen]

(* A right-padded sequence shorter than the batch length whose last real   *)
(* token has another hidden vector than the padding position taken.        *)
C10_Witness ==
    /\ PoolingDone
    /\ \E b \in Rows, len \in 1..(SeqLen - 1) :
           /\ call.attention_mask[b] = RightPadMask(len)
           /\ call.last_hidden_state[b][len] # call.last_hidden_state[b][SeqLen]
           /\ call.acum_token[b] = call.last_hidden_state[b][SeqLen]

====
